---------------------------- MODULE Spec2Model ----------------------------
(***************************************************************************)
(* A model of src/app.py: the disease catalog `diseases` (a module-level   *)
(* dict of dicts), the four request handlers get_code, list_diseases,      *)
(* update_disease and delete_disease, and the fuzzy matcher they call      *)
(* (rapidfuzz.process.extractOne with its default scorer fuzz.WRatio).     *)
(*                                                                         *)
(* Strings that the code inspects character by character (names, queries)  *)
(* are sequences of code points; the two codes of an entry are opaque JSON  *)
(* values, tagged so that a string, null and an absent field never meet.   *)
(* Scores are exact rationals <<n, d>> in lowest terms.                    *)
(*                                                                         *)
(* app.run(debug=True) starts the threaded development server: handlers    *)
(* run in concurrent threads that may be switched between any two reads or *)
(* writes of the shared dict.  Each handler is a step function from        *)
(* (thread-local state, shared state) to the same; Spec interleaves single *)
(* steps of up to NumThreads requests.  A history variable records, for    *)
(* each request, whether another request was in flight while it ran.       *)
(***************************************************************************)
EXTENDS Integers, Sequences, FiniteSets, TLC

\* ------------------------------------------------------------------------
\* Bounds and program constants

\* Concurrent requests in flight.
NumThreads == 2

\* app.py:54, `if score > 70`.
Threshold == 70

Threads == 1..NumThreads

\* an unset operation, kind or error; an absent name or score is <<>>
None == "None"

\* JSON values as the handlers see them: a string s, null (Python's None),
\* and, in a request body, a field that is not there
Str(s) == <<"str", s>>
PyNone == <<"null", "">>
Absent == <<"absent", "">>
\* a local that holds no code yet
NoCode == <<"unset", "">>
NoName == <<>>
NoScore == <<>>

\* ------------------------------------------------------------------------
\* Strings as sequences of code points

Asthma == <<65, 115, 116, 104, 109, 97>>
DiabetesMellitus ==
    <<68, 105, 97, 98, 101, 116, 101, 115, 32, 109, 101, 108, 108, 105, 116, 117, 115>>
Fever == <<70, 101, 118, 101, 114>>
\* a name that is never in the catalog
Malaria == <<77, 97, 108, 97, 114, 105, 97>>

\* the code points str.strip() and str.split() take for whitespace
\* (Py_UNICODE_ISSPACE)
IsSpace(c) ==
    \/ c \in {9, 10, 11, 12, 13, 28, 29, 30, 31, 32}
    \/ c \in {133, 160, 5760, 8232, 8233, 8239, 8287, 12288}
    \/ (c >= 8192 /\ c <= 8202)

Max(a, b) == IF a >= b THEN a ELSE b
Min(a, b) == IF a <= b THEN a ELSE b

RECURSIVE LStrip(_)
LStrip(s) == IF s # <<>> /\ IsSpace(Head(s)) THEN LStrip(Tail(s)) ELSE s

RECURSIVE RStrip(_)
RStrip(s) ==
    IF s # <<>> /\ IsSpace(s[Len(s)]) THEN RStrip(SubSeq(s, 1, Len(s) - 1)) ELSE s

\* strip left out: the query is used as typed
StripNothing(s) == s

\* str.strip(), app.py:22
strip(s) == RStrip(LStrip(s))

\* s < t in Python's string order (code point by code point, prefix first)
RECURSIVE StrLess(_, _)
StrLess(s, t) ==
    IF t = <<>> THEN FALSE
    ELSE IF s = <<>> THEN TRUE
    ELSE IF Head(s) # Head(t) THEN Head(s) < Head(t)
    ELSE StrLess(Tail(s), Tail(t))

\* str.split(): the maximal runs of non-space characters, in order
RECURSIVE SplitFrom(_, _, _)
SplitFrom(s, cur, acc) ==
    IF s = <<>> THEN (IF cur = <<>> THEN acc ELSE Append(acc, cur))
    ELSE IF IsSpace(Head(s))
         THEN SplitFrom(Tail(s), <<>>, IF cur = <<>> THEN acc ELSE Append(acc, cur))
         ELSE SplitFrom(Tail(s), Append(cur, Head(s)), acc)

split(s) == SplitFrom(s, <<>>, <<>>)

\* sorted(tokens): insertion sort, duplicates kept
RECURSIVE InsertSorted(_, _)
InsertSorted(tok, sorted) ==
    IF sorted = <<>> THEN <<tok>>
    ELSE IF StrLess(Head(sorted), tok)
         THEN <<Head(sorted)>> \o InsertSorted(tok, Tail(sorted))
         ELSE <<tok>> \o sorted

RECURSIVE SortTokens(_)
SortTokens(toks) ==
    IF toks = <<>> THEN <<>> ELSE InsertSorted(Head(toks), SortTokens(Tail(toks)))

\* sorted(set): the elements of a set of tokens in increasing order
RECURSIVE SortSet(_)
SortSet(S) ==
    IF S = {} THEN <<>>
    ELSE LET m == CHOOSE x \in S : \A y \in S \ {x} : StrLess(x, y)
         IN  <<m>> \o SortSet(S \ {m})

SeqToSet(q) == {q[i] : i \in 1..Len(q)}

\* " ".join(tokens)
RECURSIVE Join(_)
Join(toks) ==
    IF toks = <<>> THEN <<>>
    ELSE IF Len(toks) = 1 THEN Head(toks)
    ELSE Head(toks) \o <<32>> \o Join(Tail(toks))

\* ------------------------------------------------------------------------
\* Exact rationals for the scores (0..100)

RECURSIVE GCD(_, _)
GCD(a, b) == IF b = 0 THEN a ELSE GCD(b, a % b)

Rat(n, d) == IF n = 0 THEN <<0, 1>> ELSE LET g == GCD(n, d) IN <<n \div g, d \div g>>

RLess(a, b) == a[1] * b[2] < b[1] * a[2]
RMax(a, b) == IF RLess(a, b) THEN b ELSE a
Scale(a, n, d) == Rat(a[1] * n, a[2] * d)
Zero == Rat(0, 1)
Hundred == Rat(100, 1)

\* ------------------------------------------------------------------------
\* rapidfuzz.fuzz, as called through process.extractOne (app.py:53)

\* the largest element of a non-empty set of integers
MaxOf(S) == CHOOSE x \in S : \A y \in S : y <= x

\* one row of the longest-common-subsequence table: prev[j] is the LCS of
\* the prefix before character x with b[1..j]; the new row adds x, which
\* either stays unmatched or is matched with some b[k] = x, k <= j
LcsRow(prev, x, b) ==
    [j \in 1..Len(b) |->
        MaxOf({prev[j]} \cup
              {(IF k = 1 THEN 0 ELSE prev[k - 1]) + 1 : k \in {k \in 1..j : b[k] = x}})]

RECURSIVE LcsFrom(_, _, _)
LcsFrom(a, b, prev) ==
    IF a = <<>> THEN prev ELSE LcsFrom(Tail(a), b, LcsRow(prev, Head(a), b))

\* length of the longest common subsequence of a and b
LCS(a, b) ==
    IF a = <<>> \/ b = <<>> THEN 0
    ELSE LcsFrom(a, b, [j \in 1..Len(b) |-> 0])[Len(b)]

\* Indel distance: insertions and deletions turning a into b
IndelDistance(a, b) == Len(a) + Len(b) - 2 * LCS(a, b)

\* 100 - 100 * dist / lensum
NormDistance(dist, lensum) ==
    IF lensum = 0 THEN Hundred ELSE Rat(100 * (lensum - dist), lensum)

\* fuzz.ratio: normalized Indel similarity, 0..100
ratio(a, b) == NormDistance(IndelDistance(a, b), Len(a) + Len(b))

\* fuzz.token_sort_ratio
token_sort_ratio(a, b) ==
    ratio(Join(SortTokens(split(a))), Join(SortTokens(split(b))))

JoinedLen(toks) == Len(Join(toks))

\* fuzz.token_set_ratio
token_set_ratio(a, b) ==
    LET ta == SeqToSet(split(a))
        tb == SeqToSet(split(b))
        sect == SortSet(ta \cap tb)
        dab == Join(SortSet(ta \ tb))
        dba == Join(SortSet(tb \ ta))
        sectLen == JoinedLen(sect)
        sep == IF sectLen # 0 THEN 1 ELSE 0
        sectAbLen == sectLen + sep + Len(dab)
        sectBaLen == sectLen + sep + Len(dba)
        result == NormDistance(IndelDistance(dab, dba), sectAbLen + sectBaLen)
        sectAbRatio == NormDistance(sep + Len(dab), sectLen + sectAbLen)
        sectBaRatio == NormDistance(sep + Len(dba), sectLen + sectBaLen)
    IN  IF ta = {} \/ tb = {} THEN Zero
        ELSE IF ta \cap tb # {} /\ (ta \ tb = {} \/ tb \ ta = {}) THEN Hundred
        ELSE IF sectLen = 0 THEN result
        ELSE RMax(result, RMax(sectAbRatio, sectBaRatio))

\* fuzz.token_ratio: the better of the two
token_ratio(a, b) == RMax(token_sort_ratio(a, b), token_set_ratio(a, b))

\* the substrings of `long` that fuzz.partial_ratio aligns `short` with:
\* its prefixes shorter than `short`, its windows as long as `short`, and
\* its suffixes shorter than `short`
Alignments(short, long) ==
    LET n == Len(short)
        m == Len(long)
    IN  {SubSeq(long, 1, i) : i \in 1..(n - 1)}
          \cup {SubSeq(long, i, i + n - 1) : i \in 1..(m - n + 1)}
          \cup {SubSeq(long, i, m) : i \in (m - n + 2)..m}

RECURSIVE RMaxOver(_, _)
RMaxOver(S, best) ==
    IF S = {} THEN best
    ELSE LET x == CHOOSE y \in S : TRUE IN RMaxOver(S \ {x}, RMax(best, x))

PartialRatioImpl(short, long) ==
    RMaxOver({ratio(short, w) : w \in Alignments(short, long)}, Zero)

\* fuzz.partial_ratio: the best ratio of the shorter string against a
\* substring of the longer one
partial_ratio(a, b) ==
    IF a = <<>> \/ b = <<>> THEN (IF a = b THEN Hundred ELSE Zero)
    ELSE IF Len(a) < Len(b) THEN PartialRatioImpl(a, b)
    ELSE IF Len(b) < Len(a) THEN PartialRatioImpl(b, a)
    ELSE RMax(PartialRatioImpl(a, b), PartialRatioImpl(b, a))

\* fuzz.partial_token_ratio
partial_token_ratio(a, b) ==
    LET sa == split(a)
        sb == split(b)
        ta == SeqToSet(sa)
        tb == SeqToSet(sb)
        dab == ta \ tb
        dba == tb \ ta
        result == partial_ratio(Join(SortTokens(sa)), Join(SortTokens(sb)))
    IN  IF ta \cap tb # {} THEN Hundred
        ELSE IF Len(sa) = Cardinality(dab) /\ Len(sb) = Cardinality(dba) THEN result
        ELSE RMax(result, partial_ratio(Join(SortSet(dab)), Join(SortSet(dba))))

\* fuzz.WRatio with processor=None: the default scorer of extractOne
WRatio(a, b) ==
    LET la == Len(a)
        lb == Len(b)
        big == Max(la, lb)
        small == Min(la, lb)
        base == ratio(a, b)
        \* PARTIAL_SCALE: 0.9 while len_ratio <= 8, else 0.6
        pn == IF big <= 8 * small THEN 9 ELSE 6
        withPartial == RMax(base, Scale(partial_ratio(a, b), pn, 10))
    IN  IF a = <<>> \/ b = <<>> THEN Zero
        ELSE IF 2 * big < 3 * small    \* len_ratio < 1.5
        THEN RMax(base, Scale(token_ratio(a, b), 95, 100))
        ELSE RMax(withPartial, Scale(partial_token_ratio(a, b), 95 * pn, 1000))


\* ------------------------------------------------------------------------
\* Queries the clients send

\* "\u00a0 Fever \u2003" (a no-break space and an em space around),
\* "asthma", "Ashtma", "FEVER", "Asthma Fever", "Diabetes mellixxxxxxxxx",
\* "   ", "Asthmx Fever"
FeverPadded == <<160, 32>> \o Fever \o <<32, 8195>>
AsthmaLower == <<97, 115, 116, 104, 109, 97>>
AsthmaSwapped == <<65, 115, 104, 116, 109, 97>>
FeverUpper == <<70, 69, 86, 69, 82>>
AsthmaFever == Asthma \o <<32>> \o Fever
DiabetesMelliX == SubSeq(DiabetesMellitus, 1, 14) \o [i \in 1..9 |-> 120]
Blank == <<32, 32, 32>>
AsthmxFever == <<65, 115, 116, 104, 109, 120, 32>> \o Fever

\* the `disease` query parameter of /get_code; <<>> is the parameter left
\* out or given empty, both of which args.get("disease", "") reads as ""
Queries ==
    {Asthma, FeverPadded, AsthmaLower, AsthmaSwapped, FeverUpper, AsthmaFever,
     DiabetesMelliX, Blank, AsthmxFever, <<>>}

\* the queries that are, trimmed, a name, a name in another case, or empty
ExactQueries == {Asthma, FeverPadded, AsthmaLower, Blank, <<>>}

\* the queries that are no name
FuzzyQueries ==
    {AsthmaLower, AsthmaSwapped, FeverUpper, AsthmaFever, DiabetesMelliX,
     AsthmxFever}

\* an exact and a fuzzy query of one name
RaceQueries == {Asthma, AsthmaLower}

\* ------------------------------------------------------------------------
\* process.extractOne(query, choices), app.py:53

\* the scorer's value for every query and choice that can meet, computed
\* once
ScoreTable ==
    [q \in {strip(x) : x \in Queries} \ {<<>>} |->
        [c \in {Asthma, DiabetesMellitus, Fever} |-> WRatio(q, c)]]

\* scorer(query, choice)
Score(query, choice) == ScoreTable[query][choice]

\* no score replaces the first: the first choice is returned
BetterNever(score, best) == FALSE

\* whether a choice's score replaces the best so far: only a strictly
\* better one does, so the first of several equal scores is kept
Better(score, best) == RLess(best, score)

RECURSIVE ExtractFrom(_, _, _)
ExtractFrom(query, choices, best) ==
    IF choices = <<>> THEN best
    ELSE LET c == Head(choices)
             sc == Score(query, c)
             hit == [found |-> TRUE, match |-> c, score |-> sc]
         IN  IF ~best.found \/ Better(sc, best.score)
             THEN (IF sc = Hundred THEN hit ELSE ExtractFrom(query, Tail(choices), hit))
             ELSE ExtractFrom(query, Tail(choices), best)

\* extractOne returns None (found is FALSE) when there is no choice
NoMatch == [found |-> FALSE, match |-> NoName, score |-> NoScore]

\* the best choice and its score, in the order the choices are enumerated
extractOne(query, choices) == ExtractFrom(query, choices, NoMatch)

\* `score >= 70` in place of `score > 70`
AcceptAtLeast(score) == ~RLess(score, Rat(Threshold, 1))

\* app.py:54
Accept(score) == RLess(Rat(Threshold, 1), score)

\* ------------------------------------------------------------------------
\* The catalog, app.py:8-12

Fields == {"ICD11", "TM2"}

\* the dict literal: keys in insertion order, each with its inner dict
SeedKeys == <<Asthma, DiabetesMellitus, Fever>>

SeedCodes ==
    (Asthma :> [ICD11 |-> Str("CA23"), TM2 |-> Str("TM2-404")])
    @@ (DiabetesMellitus :> [ICD11 |-> Str("5A11"), TM2 |-> Str("TM2-101")])
    @@ (Fever :> [ICD11 |-> Str("MG21"), TM2 |-> Str("TM2-210")])

SeedNames == SeqToSet(SeedKeys)

\* `diseases` as loaded: keys is the dict's key order, objs the inner dict
\* objects (one per seeded name; an object outlives its key's deletion for
\* as long as a handler still holds a reference to it)
SeedDiseases == [keys |-> SeedKeys, objs |-> SeedCodes]

KeySet(d) == SeqToSet(d.keys)

\* the presence test left out
KeyInAlways(k, d) == TRUE

\* `disease in diseases`
KeyIn(k, d) == \E i \in 1..Len(d.keys) : d.keys[i] = k

\* the key stays where it was
WithoutNothing(keys, k) == keys

\* the key order after `del diseases[k]`
RECURSIVE Without(_, _)
Without(keys, k) ==
    IF keys = <<>> THEN <<>>
    ELSE IF Head(keys) = k THEN Tail(keys)
    ELSE <<Head(keys)>> \o Without(Tail(keys), k)

\* data.get(f) with no default
DataGetNoDefault(data, f, default) == data[f]

\* data.get(f, default), app.py:125-126, on a body that is a JSON object:
\* the field's value, null included, when the body has the field
DataGet(data, f, default) == IF data[f] # Absent THEN data[f] ELSE default

\* a body that is JSON but no object (null, a list, a string, a number):
\* it has no .get
NotObject == <<"notobject", "">>
BadBody == [ICD11 |-> NotObject, TM2 |-> NotObject]
IsObject(data) == data # BadBody

\* ------------------------------------------------------------------------
\* A request in progress: the handler's position and local variables

\* a request body with neither field
NoData == [ICD11 |-> Absent, TM2 |-> Absent]

NoResult ==
    [status |-> 0, kind |-> None, name |-> NoName, ICD11 |-> NoCode, TM2 |-> NoCode,
     entries |-> <<>>, error |-> None]

IdleLocal ==
    [pc |-> "idle", op |-> None, arg |-> NoName, data |-> NoData, key |-> NoName,
     kind |-> None, match |-> NoName, score |-> NoScore, codes |-> NoName,
     val |-> NoCode, pos |-> 0, used |-> 0, bundle |-> <<>>, result |-> NoResult]

\* the request as the handler is entered
Begin(op, arg, data) ==
    [IdleLocal EXCEPT !.pc = "begin", !.op = op, !.arg = arg, !.data = data]

\* the handler has returned its response res, what the client is answered;
\* of the locals, get_code's `match` and `score` are kept as they were at
\* the return (no response holds them)
Done(l, res) ==
    [IdleLocal EXCEPT !.pc = "done", !.op = l.op, !.arg = l.arg, !.data = l.data,
                      !.match = l.match, !.score = l.score, !.result = res]

\* an exception no handler catches: the server answers 500
Fault(l, err) ==
    Done(l, [NoResult EXCEPT !.status = 500, !.kind = "Fault", !.error = err])

\* ------------------------------------------------------------------------
\* The handlers, one step at a time.  A step is what a thread does between
\* two points where another thread may run: at most one read or write of
\* `diseases` or of an inner dict.  Each returns the thread's new local
\* state l and the new shared state d.

\* app.py:21-81
get_code(l, d) ==
    CASE l.pc = "begin" ->
            \* lines 22-29: strip, reject the empty query, exact test
            LET disease == strip(l.arg) IN
            IF disease = <<>>
            THEN [l |-> Done(l, [NoResult EXCEPT !.status = 400, !.kind = "InvalidQuery"]),
                  d |-> d]
            ELSE IF KeyIn(disease, d)
            THEN [l |-> [l EXCEPT !.pc = "load", !.key = disease, !.kind = "Exact"],
                  d |-> d]
            ELSE [l |-> [l EXCEPT !.pc = "fuzzy", !.key = disease], d |-> d]
      [] l.pc = "fuzzy" ->
            \* lines 53-54: unpacking None raises TypeError
            LET r == extractOne(l.key, d.keys) IN
            IF ~r.found THEN [l |-> Fault(l, "TypeError"), d |-> d]
            ELSE IF Accept(r.score)
            THEN [l |-> [l EXCEPT !.pc = "load", !.kind = "Fuzzy", !.match = r.match,
                                  !.score = r.score],
                  d |-> d]
            ELSE [l |-> Done([l EXCEPT !.match = r.match, !.score = r.score],
                             [NoResult EXCEPT !.status = 404, !.kind = "NotFound"]),
                  d |-> d]
      [] l.pc = "load" ->
            \* line 30, codes = diseases[disease], or line 55,
            \* codes = diseases[match]
            LET k == IF l.kind = "Exact" THEN l.key ELSE l.match IN
            IF ~KeyIn(k, d) THEN [l |-> Fault(l, "KeyError"), d |-> d]
            ELSE [l |-> [l EXCEPT !.pc = "icd", !.codes = k], d |-> d]
      [] l.pc = "icd" ->
            \* lines 38 and 64: codes["ICD11"]
            [l |-> [l EXCEPT !.pc = "tm2", !.val = d.objs[l.codes].ICD11], d |-> d]
      [] l.pc = "tm2" ->
            \* lines 43 and 69: codes["TM2"], then the response
            \* (the display name is `disease` on the exact path, `match` on
            \* the fuzzy one)
            [l |-> Done(l, [NoResult EXCEPT !.status = 200, !.kind = l.kind,
                                            !.name = l.codes, !.ICD11 = l.val,
                                            !.TM2 = d.objs[l.codes].TM2]),
             d |-> d]

\* app.py:86-117
list_diseases(l, d) ==
    CASE l.pc = "begin" ->
            \* line 93: the iterator remembers the dict's size
            [l |-> [l EXCEPT !.pc = "next", !.pos = 0, !.used = Len(d.keys)], d |-> d]
      [] l.pc = "next" ->
            \* the iterator's next(): a changed size raises RuntimeError
            IF Len(d.keys) # l.used THEN [l |-> Fault(l, "RuntimeError"), d |-> d]
            ELSE IF l.pos >= Len(d.keys)
            THEN [l |-> Done(l, [NoResult EXCEPT !.status = 200, !.kind = "Bundle",
                                                 !.entries = l.bundle]),
                  d |-> d]
            ELSE [l |-> [l EXCEPT !.pc = "icd", !.pos = l.pos + 1,
                                  !.key = d.keys[l.pos + 1],
                                  !.codes = d.keys[l.pos + 1]],
                  d |-> d]
      [] l.pc = "icd" ->
            \* line 102
            [l |-> [l EXCEPT !.pc = "tm2", !.val = d.objs[l.codes].ICD11], d |-> d]
      [] l.pc = "tm2" ->
            \* lines 107 and 115
            [l |-> [l EXCEPT !.pc = "next", !.key = NoName, !.codes = NoName, !.val = NoCode,
                             !.bundle = Append(l.bundle,
                                 [name |-> l.key, ICD11 |-> l.val,
                                  TM2 |-> d.objs[l.codes].TM2])],
             d |-> d]

\* the inner dicts are one shared object: a store shows in every entry
SetItemShared(d, key, f, v) ==
    [d EXCEPT !.objs = [n \in DOMAIN d.objs |-> [d.objs[n] EXCEPT ![f] = v]]]

\* diseases[key][f] = v, the store of app.py:125-126: into the inner dict
\* of entry `key`, which is present
SetItem(d, key, f, v) == [d EXCEPT !.objs[key][f] = v]

\* an update of an absent name creates the entry from the body
UpdateMissingUpsert(l, d) ==
    [l |-> Done(l, [NoResult EXCEPT !.status = 200, !.kind = "Updated"]),
     d |-> [keys |-> Append(d.keys, l.arg),
            objs |-> [n \in DOMAIN d.objs \cup {l.arg} |->
                        IF n = l.arg THEN l.data ELSE d.objs[n]]]]

\* app.py:135-138: the name is absent, nothing is written
UpdateMissing(l, d) ==
    [l |-> Done(l, [NoResult EXCEPT !.status = 404, !.kind = "NotFoundError"]),
     d |-> d]

\* the field an update step reads or writes
StepField(l) == IF l.pc \in {"def_icd", "set_icd"} THEN "ICD11" ELSE "TM2"

\* app.py:122-138
update_disease(l, d) ==
    CASE l.pc = "begin" ->
            \* line 124
            IF KeyIn(l.arg, d)
            THEN [l |-> [l EXCEPT !.pc = "def_icd", !.key = l.arg], d |-> d]
            ELSE UpdateMissing(l, d)
      [] l.pc \in {"def_icd", "def_tm2"} ->
            \* the right-hand side: data.get is looked up (AttributeError
            \* when the body is no object), the default diseases[disease][f]
            \* is read whether or not the body supplies f, then data.get picks
            IF ~IsObject(l.data) THEN [l |-> Fault(l, "AttributeError"), d |-> d]
            ELSE IF ~KeyIn(l.key, d) THEN [l |-> Fault(l, "KeyError"), d |-> d]
            ELSE [l |-> [l EXCEPT !.pc = IF l.pc = "def_icd" THEN "set_icd" ELSE "set_tm2",
                                  !.val = DataGet(l.data, StepField(l),
                                                  d.objs[l.key][StepField(l)])],
                  d |-> d]
      [] l.pc = "set_icd" ->
            \* line 125, the store
            IF ~KeyIn(l.key, d) THEN [l |-> Fault(l, "KeyError"), d |-> d]
            ELSE [l |-> [l EXCEPT !.pc = "def_tm2", !.val = NoCode],
                  d |-> SetItem(d, l.key, "ICD11", l.val)]
      [] l.pc = "set_tm2" ->
            \* line 126, the store, then the response
            IF ~KeyIn(l.key, d) THEN [l |-> Fault(l, "KeyError"), d |-> d]
            ELSE [l |-> Done(l, [NoResult EXCEPT !.status = 200, !.kind = "Updated"]),
                  d |-> SetItem(d, l.key, "TM2", l.val)]

\* app.py:143-157
delete_disease(l, d) ==
    CASE l.pc = "begin" ->
            \* line 144
            IF KeyIn(l.arg, d)
            THEN [l |-> [l EXCEPT !.pc = "del", !.key = l.arg], d |-> d]
            ELSE [l |-> Done(l, [NoResult EXCEPT !.status = 404, !.kind = "NotFoundError"]),
                  d |-> d]
      [] l.pc = "del" ->
            \* line 145
            IF ~KeyIn(l.key, d) THEN [l |-> Fault(l, "KeyError"), d |-> d]
            ELSE [l |-> Done(l, [NoResult EXCEPT !.status = 200, !.kind = "Deleted"]),
                  d |-> [d EXCEPT !.keys = Without(d.keys, l.key)]]

\* History: for each entry and field, the value most recently stored by an
\* update whose body supplied that field (the seed value before any).
HistStep(l, d, h) ==
    IF l.op = "update_disease" /\ l.pc \in {"set_icd", "set_tm2"} /\ KeyIn(l.key, d)
       /\ l.data[StepField(l)] # Absent
    THEN [h EXCEPT ![l.key][StepField(l)] = l.data[StepField(l)]]
    ELSE h

\* ------------------------------------------------------------------------
\* Requests the clients send

\* JSON bodies of /update: each field absent or a new code
Bodies == [ICD11 : {Absent, Str("X1")}, TM2 : {Absent, Str("Y1")}]

\* bodies that supply one field and omit the other
RaceBodies ==
    {[ICD11 |-> Str("X1"), TM2 |-> Absent], [ICD11 |-> Absent, TM2 |-> Str("Y1")]}

\* bodies that supply both fields
PairBodies ==
    {[ICD11 |-> Str("X1"), TM2 |-> Str("Y1")], [ICD11 |-> Str("X2"), TM2 |-> Str("Y2")]}

\* bodies whose ICD11 tells two updates apart
CrossBodies ==
    {[ICD11 |-> Str("X1"), TM2 |-> Absent], [ICD11 |-> Str("X2"), TM2 |-> Str("Y1")]}

\* bodies with any JSON value for a code (the empty string, null), and a
\* body that is no object
AnyBodies ==
    [ICD11 : {Absent, Str(""), PyNone, Str("X1")}, TM2 : {Absent, Str("Y1")}]
    \cup {BadBody}

\* the names the requests of each specification address
RaceUpdateNames == {Asthma}
RaceDeleteNames == {Asthma, Malaria}
CrossNames == {Asthma, Fever}
CodesUpdateNames == {Asthma, Malaria}

\* ------------------------------------------------------------------------
\* State

VARIABLES
    diseases,   \* the module-level dict, app.py:8
    th,         \* th[t]: the request thread t is serving
    hist,       \* history variable, see HistStep
    seen        \* history variable, see SeenAt

vars == <<diseases, th, hist, seen>>

\* thread u is inside a handler
Active(u) == th[u].pc \notin {"idle", "done"}

NotSeen == [overlap |-> FALSE, clash |-> FALSE]

\* History: seen[u].overlap tells whether another request has been inside
\* its handler at any time since u's request arrived (u's thread is not yet
\* free again); seen[u].clash whether such a request was an update of the
\* same name as u's update.  Both change only when a request arrives, here
\* req at t.
SeenAt(t, req) ==
    [u \in Threads |->
        IF u = t
        THEN [overlap |-> \E v \in Threads \ {t} : Active(v),
              clash |-> \E v \in Threads \ {t} :
                           /\ Active(v)
                           /\ th[v].op = "update_disease"
                           /\ req.op = "update_disease"
                           /\ th[v].arg = req.arg]
        ELSE IF th[u].pc # "idle"
        THEN [overlap |-> TRUE,
              clash |-> \/ seen[u].clash
                        \/ (/\ th[u].op = "update_disease"
                            /\ req.op = "update_disease"
                            /\ th[u].arg = req.arg)]
        ELSE seen[u]]

Init ==
    /\ diseases = SeedDiseases
    /\ th = [t \in Threads |-> IdleLocal]
    /\ hist = SeedCodes
    /\ seen = [t \in Threads |-> NotSeen]

\* thread t accepts a request
Receive(t, req) ==
    /\ th[t].pc = "idle"
    /\ th' = [th EXCEPT ![t] = req]
    /\ seen' = SeenAt(t, req)
    /\ UNCHANGED <<diseases, hist>>

\* the response is sent and the thread is free again
Return(t) ==
    /\ th[t].pc = "done"
    /\ th' = [th EXCEPT ![t] = IdleLocal]
    /\ seen' = [seen EXCEPT ![t] = NotSeen]
    /\ UNCHANGED <<diseases, hist>>

\* the lookup `codes = diseases[...]` takes the entry out of the dict, as
\* diseases.pop(...) would
GetCodeStepPop(t) ==
    /\ th[t].op = "get_code"
    /\ th[t].pc \notin {"idle", "done"}
    /\ LET r == get_code(th[t], diseases) IN
         /\ th' = [th EXCEPT ![t] = r.l]
         /\ diseases' = IF th[t].pc = "load" /\ r.l.pc = "icd"
                         THEN [r.d EXCEPT !.keys = Without(r.d.keys, r.l.codes)]
                         ELSE r.d
         /\ hist' = HistStep(th[t], diseases, hist)
    /\ UNCHANGED seen

\* thread t takes one step of the handler its request is routed to
GetCodeStep(t) ==
    /\ th[t].op = "get_code"
    /\ th[t].pc \notin {"idle", "done"}
    /\ LET r == get_code(th[t], diseases) IN
         /\ th' = [th EXCEPT ![t] = r.l]
         /\ diseases' = r.d
         /\ hist' = HistStep(th[t], diseases, hist)
    /\ UNCHANGED seen

ListStep(t) ==
    /\ th[t].op = "list_diseases"
    /\ th[t].pc \notin {"idle", "done"}
    /\ LET r == list_diseases(th[t], diseases) IN
         /\ th' = [th EXCEPT ![t] = r.l]
         /\ diseases' = r.d
         /\ hist' = HistStep(th[t], diseases, hist)
    /\ UNCHANGED seen

UpdateStep(t) ==
    /\ th[t].op = "update_disease"
    /\ th[t].pc \notin {"idle", "done"}
    /\ LET r == update_disease(th[t], diseases) IN
         /\ th' = [th EXCEPT ![t] = r.l]
         /\ diseases' = r.d
         /\ hist' = HistStep(th[t], diseases, hist)
    /\ UNCHANGED seen

DeleteStep(t) ==
    /\ th[t].op = "delete_disease"
    /\ th[t].pc \notin {"idle", "done"}
    /\ LET r == delete_disease(th[t], diseases) IN
         /\ th' = [th EXCEPT ![t] = r.l]
         /\ diseases' = r.d
         /\ hist' = HistStep(th[t], diseases, hist)
    /\ UNCHANGED seen

\* ------------------------------------------------------------------------
\* Spec: the four handlers interleaved step by step

StartGetCode(t) == \E q \in RaceQueries : Receive(t, Begin("get_code", q, NoData))
StartList(t) == Receive(t, Begin("list_diseases", NoName, NoData))
StartUpdateOne(t) ==
    Receive(t, Begin("update_disease", Asthma, [ICD11 |-> Str("X1"), TM2 |-> Absent]))
StartDelete(t) == \E n \in RaceDeleteNames : Receive(t, Begin("delete_disease", n, NoData))

Next ==
    \E t \in Threads :
        \/ StartGetCode(t) \/ GetCodeStep(t)
        \/ StartList(t) \/ ListStep(t)
        \/ StartUpdateOne(t) \/ UpdateStep(t)
        \/ StartDelete(t) \/ DeleteStep(t)
        \/ Return(t)

Spec == Init /\ [][Next]_vars

\* ------------------------------------------------------------------------
\* SpecWrites: lookups, one-field updates and deletes of one name

StartUpdate(t) ==
    \E n \in RaceUpdateNames, b \in RaceBodies :
        Receive(t, Begin("update_disease", n, b))

NextWrites ==
    \E t \in Threads :
        \/ StartGetCode(t) \/ GetCodeStep(t)
        \/ StartUpdate(t) \/ UpdateStep(t)
        \/ StartDelete(t) \/ DeleteStep(t)
        \/ Return(t)

SpecWrites == Init /\ [][NextWrites]_vars

\* ------------------------------------------------------------------------
\* SpecPairs: the four handlers, with every update supplying both fields

StartUpdatePair(t) ==
    \E n \in RaceUpdateNames, b \in PairBodies :
        Receive(t, Begin("update_disease", n, b))

NextPairs ==
    \E t \in Threads :
        \/ StartGetCode(t) \/ GetCodeStep(t)
        \/ StartList(t) \/ ListStep(t)
        \/ StartUpdatePair(t) \/ UpdateStep(t)
        \/ StartDelete(t) \/ DeleteStep(t)
        \/ Return(t)

SpecPairs == Init /\ [][NextPairs]_vars

\* ------------------------------------------------------------------------
\* SpecResolve: the queries that are no name, against deletes of every
\* seeded name

StartResolve(t) == \E q \in FuzzyQueries : Receive(t, Begin("get_code", q, NoData))
StartDeleteSeed(t) == \E n \in SeedNames : Receive(t, Begin("delete_disease", n, NoData))

NextResolve ==
    \E t \in Threads :
        \/ StartResolve(t) \/ GetCodeStep(t)
        \/ StartDeleteSeed(t) \/ DeleteStep(t)
        \/ Return(t)

SpecResolve == Init /\ [][NextResolve]_vars

\* ------------------------------------------------------------------------
\* SpecExact: the queries that are a name, nearly a name or empty, against
\* deletes of every seeded name and an update

StartExact(t) == \E q \in ExactQueries : Receive(t, Begin("get_code", q, NoData))

NextExact ==
    \E t \in Threads :
        \/ StartExact(t) \/ GetCodeStep(t)
        \/ StartDeleteSeed(t) \/ DeleteStep(t)
        \/ StartUpdateOne(t) \/ UpdateStep(t)
        \/ Return(t)

SpecExact == Init /\ [][NextExact]_vars

\* ------------------------------------------------------------------------
\* SpecUpdates: updates of two names only

StartUpdateCross(t) ==
    \E n \in CrossNames, b \in CrossBodies :
        Receive(t, Begin("update_disease", n, b))

NextUpdates ==
    \E t \in Threads :
        \/ StartUpdateCross(t)
        \/ UpdateStep(t)
        \/ Return(t)

SpecUpdates == Init /\ [][NextUpdates]_vars

\* ------------------------------------------------------------------------
\* SpecCodes: updates whose bodies hold any JSON value, against deletes

StartUpdateAny(t) ==
    \E n \in CodesUpdateNames, b \in AnyBodies :
        Receive(t, Begin("update_disease", n, b))
StartDeleteOne(t) == Receive(t, Begin("delete_disease", Asthma, NoData))

NextCodes ==
    \E t \in Threads :
        \/ StartUpdateAny(t) \/ UpdateStep(t)
        \/ StartDeleteOne(t) \/ DeleteStep(t)
        \/ Return(t)

SpecCodes == Init /\ [][NextCodes]_vars

\* ------------------------------------------------------------------------
\* Properties

Names == KeySet(diseases)
Entry(n) == diseases.objs[n]

\* a query without its surrounding whitespace: from its first to its last
\* non-space character
Trimmed(s) ==
    LET solid == {i \in 1..Len(s) : ~IsSpace(s[i])}
    IN  IF solid = {} THEN <<>>
        ELSE SubSeq(s, CHOOSE i \in solid : \A j \in solid : i <= j,
                       CHOOSE i \in solid : \A j \in solid : j <= i)

\* the best score of query q over the names now in the catalog
BestScore(q) == RMaxOver({Score(q, n) : n \in Names}, Zero)

\* the names that reach it
BestNames(q) == {n \in Names : Score(q, n) = BestScore(q)}

AboveThreshold(score) == score[1] > Threshold * score[2]

\* the smallest of a set of names in string order
LexMin(S) == CHOOSE x \in S : \A y \in S \ {x} : StrLess(x, y)

\* no other request has run since thread t's request arrived: t's handler
\* ran alone and `diseases` is as it left it
Alone(t) == ~seen[t].overlap

\* thread t has answered a /get_code request that ran alone
Resolved(t) == th[t].pc = "done" /\ th[t].op = "get_code" /\ Alone(t)

\* ... whose trimmed query is not empty and is no name of the catalog
FuzzyCase(t) ==
    /\ Resolved(t)
    /\ Trimmed(th[t].arg) # <<>>
    /\ Trimmed(th[t].arg) \notin Names
    /\ Names # {}

\* C1: on an exact miss over a non-empty catalog, a get_code that ran alone
\* answers with the fuzzy match exactly when the best score over the
\* catalog names is strictly above 70, and then with a best-scoring name
\* and that name's entry, the score it compared (app.py:54; the response
\* carries none) being the best score; a best score of 70 or less answers
\* not-found.
C1_ThresholdExclusive ==
    \A t \in Threads :
        FuzzyCase(t) =>
            LET r == th[t].result
                best == BestScore(Trimmed(th[t].arg))
            IN  /\ (r.kind = "Fuzzy") <=> AboveThreshold(best)
                /\ ~AboveThreshold(best) => r.kind = "NotFound" /\ r.status = 404
                /\ r.kind = "Fuzzy" =>
                      /\ th[t].score = best
                      /\ r.name = th[t].match
                      /\ r.name \in BestNames(Trimmed(th[t].arg))
                      /\ r.ICD11 = Entry(r.name).ICD11
                      /\ r.TM2 = Entry(r.name).TM2

\* a query whose best score is exactly 70 was answered not-found
C1_Witness ==
    \E t \in Threads :
        /\ FuzzyCase(t)
        /\ BestScore(Trimmed(th[t].arg)) = Rat(Threshold, 1)
        /\ th[t].result.kind = "NotFound"

\* C2: with the catalog empty, a get_code that ran alone with a non-empty
\* query answers not-found.
C2_EmptyCatalogNotFound ==
    \A t \in Threads :
        (Resolved(t) /\ Trimmed(th[t].arg) # <<>> /\ Names = {}) =>
            th[t].result.kind = "NotFound"

\* where name n stands in the key order of `diseases`
Position(n) == CHOOSE i \in 1..Len(diseases.keys) : diseases.keys[i] = n

\* the name of a set of catalog names that is stored first
FirstStored(S) == CHOOSE x \in S : \A y \in S : Position(x) <= Position(y)

\* the keys stand in the order in which app.py:8-12 stores them, which is
\* string order, less the deleted ones; no handler inserts or moves a key,
\* so this holds of every catalog the program holds
InSeedOrder ==
    \A i, j \in 1..Len(diseases.keys) :
        i < j => \E a, b \in 1..Len(SeedKeys) :
                    /\ a < b
                    /\ SeedKeys[a] = diseases.keys[i]
                    /\ SeedKeys[b] = diseases.keys[j]

\* several names of the catalog tie at the best score of t's query
Tied(t) == FuzzyCase(t) /\ Cardinality(BestNames(Trimmed(th[t].arg))) >= 2

\* on a tie at the best score, the fuzzy match of a get_code that ran alone
\* is the tied name stored first (process.extractOne has no other rule); in
\* the catalogs of this program that name is also the smallest of the tied
\* names in string order
TiePicksFirstStored ==
    \A t \in Threads :
        Tied(t) =>
            /\ th[t].result.kind \in {"Fuzzy", "NotFound"}
            /\ th[t].match = FirstStored(BestNames(Trimmed(th[t].arg)))
            /\ th[t].match = LexMin(BestNames(Trimmed(th[t].arg)))

\* a query with two names tied at the best score was answered with a name
TieAnswered ==
    \E t \in Threads :
        /\ Tied(t)
        /\ th[t].result.kind = "Fuzzy"

\* C4: a non-empty query that, trimmed, is a catalog name is answered, by a
\* get_code that ran alone, with that name and its current entry, no match
\* or score having been computed; any other query is never answered as an
\* exact match.
C4_ExactMatch ==
    \A t \in Threads :
        (Resolved(t) /\ Trimmed(th[t].arg) # <<>>) =>
            LET q == Trimmed(th[t].arg)
                r == th[t].result
            IN  /\ q \in Names =>
                      /\ r.kind = "Exact" /\ r.status = 200
                      /\ r.name = q
                      /\ r.ICD11 = Entry(q).ICD11
                      /\ r.TM2 = Entry(q).TM2
                      /\ th[t].match = NoName
                      /\ th[t].score = NoScore
                /\ q \notin Names => r.kind # "Exact"

\* a query with blanks and no-break spaces around a name was answered as
\* an exact match
C4_Witness ==
    \E t \in Threads :
        /\ Resolved(t)
        /\ th[t].arg = FeverPadded
        /\ th[t].result.kind = "Exact"

\* thread t is inside update_disease and takes a step
UpdateStepBy(t) ==
    /\ th[t].op = "update_disease"
    /\ th[t].pc \notin {"idle", "done"}
    /\ th'[t] # th[t]

\* C5: while no other request runs, a step of an update leaves the
\* key set alone and changes a field only of its own entry, only if the
\* body supplies it and only to the supplied code; when the update answers
\* success every supplied field holds its supplied code.
C5_PartialUpdateFrame ==
    [][\A t \in Threads :
          (UpdateStepBy(t) /\ Alone(t)) =>
              /\ diseases'.keys = diseases.keys
              /\ \A n \in SeedNames, f \in Fields :
                    diseases'.objs[n][f] # diseases.objs[n][f] =>
                        /\ n = th[t].arg
                        /\ th[t].data[f] # Absent
                        /\ diseases'.objs[n][f] = th[t].data[f]
              /\ (th'[t].pc = "done" /\ th'[t].result.status = 200) =>
                    \A f \in Fields :
                        th[t].data[f] # Absent =>
                            diseases'.objs[th[t].arg][f] = th[t].data[f]]_vars

\* an update that supplied only ICD11 succeeded: ICD11 is new, TM2 as seeded
C5_Witness ==
    \E t \in Threads :
        /\ th[t].pc = "done" /\ th[t].op = "update_disease"
        /\ Alone(t)
        /\ th[t].result.status = 200
        /\ th[t].data = [ICD11 |-> Str("X1"), TM2 |-> Absent]
        /\ Entry(th[t].arg) =
              [ICD11 |-> Str("X1"), TM2 |-> SeedCodes[th[t].arg].TM2]

\* the entries a finished request showed its caller
Observed(t) ==
    IF th[t].pc # "done" THEN {}
    ELSE IF th[t].result.kind \in {"Exact", "Fuzzy"}
    THEN {[name |-> th[t].result.name, ICD11 |-> th[t].result.ICD11,
           TM2 |-> th[t].result.TM2]}
    ELSE IF th[t].result.kind = "Bundle" THEN SeqToSet(th[t].result.entries)
    ELSE {}

\* C6: when every update supplies both fields, no response shows an entry
\* with one field of an update and not the other: each entry shown is the
\* seeded pair or the pair of one update body.
C6_UpdateAppearsAtomic ==
    \A t \in Threads :
        \A e \in Observed(t) :
            \/ [ICD11 |-> e.ICD11, TM2 |-> e.TM2] = SeedCodes[e.name]
            \/ [ICD11 |-> e.ICD11, TM2 |-> e.TM2] \in PairBodies

\* C7: an update or delete of a name that is not in the catalog answers
\* not-found in its first step and leaves `diseases` as it was.
C7_FailedMutationNoChange ==
    [][\A t \in Threads :
          (/\ th[t].op \in {"update_disease", "delete_disease"}
           /\ th[t].pc = "begin"
           /\ th[t].arg \notin Names
           /\ th'[t] # th[t]) =>
              /\ th'[t].pc = "done"
              /\ th'[t].result.kind = "NotFoundError"
              /\ th'[t].result.status = 404
              /\ diseases' = diseases]_vars

\* an update and a delete of an absent name were answered not-found
C7_Witness ==
    \E t \in Threads :
        /\ th[t].pc = "done"
        /\ th[t].op \in {"update_disease", "delete_disease"}
        /\ th[t].arg \notin Names
        /\ th[t].result.kind = "NotFoundError"

\* C8: no get_code, update or delete request ends in an exception that no
\* handler catches, whatever the interleaving.
C8_NoUnhandledFault ==
    \A t \in Threads :
        th[t].op \in {"get_code", "update_disease", "delete_disease"} =>
            th[t].result.kind # "Fault"

\* C9: /list_diseases always answers with its bundle.
C9_ListNeverFails ==
    \A t \in Threads :
        (th[t].pc = "done" /\ th[t].op = "list_diseases") =>
            th[t].result.kind = "Bundle"

\* C10: once a delete has answered success its name is not in the catalog,
\* and once an update has answered success each field it supplied holds,
\* while the entry exists, the code most recently stored by an update that
\* supplied that field.
C10_ReadAfterWrite ==
    \A t \in Threads :
        (th[t].pc = "done" /\ th[t].result.status = 200) =>
            /\ th[t].op = "delete_disease" => th[t].arg \notin Names
            /\ (th[t].op = "update_disease" /\ th[t].arg \in Names) =>
                  \A f \in Fields :
                      th[t].data[f] # Absent =>
                          Entry(th[t].arg)[f] = hist[th[t].arg][f]

\* C11: get_code with an empty or blank query answers the invalid-query
\* error (400) in its first step, whatever the catalog holds, takes neither
\* the exact nor the fuzzy path, and leaves `diseases` as it was.
C11_EmptyQueryRejected ==
    [][\A t \in Threads :
          (/\ th[t].op = "get_code"
           /\ th[t].pc = "begin"
           /\ Trimmed(th[t].arg) = <<>>
           /\ th'[t] # th[t]) =>
              /\ th'[t].pc = "done"
              /\ th'[t].result.kind = "InvalidQuery"
              /\ th'[t].result.status = 400
              /\ th'[t].kind = None
              /\ th'[t].match = NoName
              /\ th'[t].score = NoScore
              /\ diseases' = diseases]_vars

\* a blank query was rejected while the catalog was empty
C11_Witness ==
    \E t \in Threads :
        /\ Resolved(t)
        /\ th[t].arg = Blank
        /\ Names = {}
        /\ th[t].result.kind = "InvalidQuery"

\* C12: once a delete has answered success its name is out of the catalog;
\* a name that is out of the catalog stays out in every later state, a
\* delete of it answers not-found, and an exact lookup of it does not take
\* the exact path.
C12_DeleteIsFinal ==
    [][\A t \in Threads :
          /\ (/\ th[t].op = "delete_disease"
              /\ th[t].pc # "done"
              /\ th'[t].pc = "done"
              /\ th'[t].result.status = 200) => th[t].arg \notin Names'
          /\ \A n \in SeedNames \ Names :
                /\ n \notin Names'
                /\ (/\ th[t].op = "delete_disease"
                    /\ th[t].pc = "begin"
                    /\ th[t].arg = n
                    /\ th'[t] # th[t]) =>
                       /\ th'[t].pc = "done"
                       /\ th'[t].result.kind = "NotFoundError"
                       /\ th'[t].result.status = 404
                /\ (/\ th[t].op = "get_code"
                    /\ th[t].pc = "begin"
                    /\ Trimmed(th[t].arg) = n
                    /\ th'[t] # th[t]) => th'[t].kind # "Exact"]_vars

\* a second delete of a deleted seed name was answered not-found
C12_Witness ==
    \E t \in Threads :
        /\ th[t].pc = "done" /\ th[t].op = "delete_disease"
        /\ th[t].arg \in SeedNames \ Names
        /\ th[t].result.kind = "NotFoundError"

\* thread t has answered an update with success
Updated(t) ==
    /\ th[t].pc = "done"
    /\ th[t].op = "update_disease"
    /\ th[t].result.status = 200

\* the entry of t's update holds every code t's body supplied
Landed(t) ==
    \A f \in Fields :
        th[t].data[f] # Absent => Entry(th[t].arg)[f] = th[t].data[f]

\* C13: when two updates of different names have both answered success,
\* however their steps interleaved, and no other update of either name has
\* run since they arrived, each entry holds the codes its own update
\* supplied.
C13_NoLostUpdateAcrossEntries ==
    \A t, u \in Threads :
        (/\ t # u /\ Updated(t) /\ Updated(u) /\ th[t].arg # th[u].arg
         /\ ~seen[t].clash /\ ~seen[u].clash) =>
            Landed(t) /\ Landed(u)

\* two updates of different names, with different ICD11 codes, have
\* overlapped and both answered success
C13_Witness ==
    \E t, u \in Threads :
        /\ Updated(t) /\ Updated(u)
        /\ th[t].arg # th[u].arg
        /\ seen[t].overlap /\ seen[u].overlap
        /\ ~seen[t].clash /\ ~seen[u].clash
        /\ th[t].data.ICD11 = Str("X1") /\ th[u].data.ICD11 = Str("X2")

\* C14: every entry of the catalog has both codes present (not null) and
\* non-empty.
C14_CodesNonEmpty ==
    \A n \in Names, f \in Fields : Entry(n)[f] \notin {PyNone, Str("")}

\* C15: no step adds a name to the catalog: the names after a step are
\* among the names before it and among the seeded names, so a deleted name
\* never comes back.
C15_NoEntryCreated ==
    [][Names' \subseteq Names /\ Names' \subseteq SeedNames]_vars

\* an update of a deleted seed name was answered not-found and the name is
\* still out of the catalog
C15_Witness ==
    \E t \in Threads :
        /\ th[t].pc = "done" /\ th[t].op = "update_disease"
        /\ th[t].arg \in SeedNames \ Names
        /\ th[t].data # NoData
        /\ th[t].result.kind = "NotFoundError"

\* C16: no step of get_code or of list_diseases changes `diseases`, neither
\* its keys nor any entry's codes, whatever the query and the outcome.
C16_ReadsHaveNoSideEffect ==
    [][\A t \in Threads :
          (/\ th[t].op \in {"get_code", "list_diseases"}
           /\ th[t].pc \notin {"idle", "done"}
           /\ th'[t] # th[t]) => diseases' = diseases]_vars

\* a fuzzy match was answered from an entry updated earlier, and the entry
\* still holds the updated code
C16_Witness ==
    \E t \in Threads :
        /\ Resolved(t)
        /\ th[t].result.kind = "Fuzzy"
        /\ th[t].result.ICD11 = Str("X1")
        /\ th[t].result.name \in Names
        /\ Entry(th[t].result.name).ICD11 = Str("X1")

\* a letter in lower case (A-Z only; every other character as it is)
LowerChar(c) == IF c >= 65 /\ c <= 90 THEN c + 32 ELSE c

\* q is name n with one pair of different adjacent characters exchanged
IsTransposition(q, n) ==
    /\ Len(q) = Len(n)
    /\ \E i \in 1..(Len(n) - 1) :
          /\ n[i] # n[i + 1]
          /\ q = [n EXCEPT ![i] = n[i + 1], ![i + 1] = n[i]]

\* q is name n with the case of some letters changed
IsCaseVariant(q, n) ==
    /\ q # n
    /\ Len(q) = Len(n)
    /\ \A i \in 1..Len(n) : LowerChar(q[i]) = LowerChar(n[i])

\* C17: a query that is a catalog name with two adjacent characters
\* exchanged, or with the case of some letters changed, is answered, by a
\* get_code that ran alone, with the fuzzy match of that name, at a score
\* above 70.
C17_VariantsMatchFuzzy ==
    \A t \in Threads :
        \A n \in Names :
            (/\ Resolved(t)
             /\ IsTransposition(th[t].arg, n) \/ IsCaseVariant(th[t].arg, n)) =>
                /\ th[t].result.kind = "Fuzzy"
                /\ th[t].result.name = n
                /\ AboveThreshold(th[t].score)

\* C18: when an update supplying only ICD11 and an update supplying only
\* TM2, both of the same name, have run concurrently and both have answered
\* success, the entry holds both supplied codes.
C18_DisjointFieldsBothLand ==
    \A t, u \in Threads :
        (/\ Updated(t) /\ Updated(u)
         /\ th[t].arg = th[u].arg
         /\ th[t].arg \in Names
         /\ th[t].data = [ICD11 |-> Str("X1"), TM2 |-> Absent]
         /\ th[u].data = [ICD11 |-> Absent, TM2 |-> Str("Y1")]) =>
            Entry(th[t].arg) = [ICD11 |-> Str("X1"), TM2 |-> Str("Y1")]

\* C19: a fuzzy answer of a get_code that ran alone names a key of the
\* catalog and carries that key's current codes, and the score the handler
\* compared (app.py:54; the response carries none) is the largest of the
\* scores of the query against the names of the catalog, reached by the
\* name it gives.
C19_FuzzyIsBest ==
    \A t \in Threads :
        (Resolved(t) /\ th[t].result.kind = "Fuzzy") =>
            LET r == th[t].result
                q == Trimmed(th[t].arg)
            IN  /\ r.name \in Names
                /\ [ICD11 |-> r.ICD11, TM2 |-> r.TM2] = Entry(r.name)
                /\ \A n \in Names : ~RLess(th[t].score, Score(q, n))
                /\ th[t].score = Score(q, r.name)

\* "Asthmx Fever" was answered with Fever, the last key, while Asthma, the
\* first key, also scores above 70
C19_Witness ==
    \E t \in Threads :
        /\ Resolved(t)
        /\ th[t].arg = AsthmxFever
        /\ th[t].result.kind = "Fuzzy"
        /\ th[t].result.name = Fever
        /\ Asthma \in Names
        /\ AboveThreshold(Score(AsthmxFever, Asthma))

=============================================================================
